---- MODULE Spec2Model ----
(***************************************************************************)
(* Performance Learning Engine of the hashtag optimizer: the SQLite store  *)
(* (posts, hashtags, performance, hashtag_stats), the operations that      *)
(* write it (save_prediction, update_actual_performance, the CSV importer, *)
(* clean_old_predictions) and the connections that run them.               *)
(*                                                                         *)
(* Every operation opens its own sqlite3 connection.  With the module's    *)
(* default settings the first INSERT/DELETE of a connection opens a        *)
(* transaction and takes the database write lock; the writes stay in the   *)
(* connection's working copy until conn.commit(), and a connection that is *)
(* dropped without commit is rolled back.  REAL values are modelled as     *)
(* exact rationals <<numerator, denominator>> in lowest terms.             *)
(***************************************************************************)
EXTENDS Integers, Sequences, FiniteSets, TLC

VARIABLES db, now, pc, cur, wdb, issued, call

vars == <<db, now, pc, cur, wdb, issued, call>>

(***************************************************************************)
(* Bounds of the model                                                     *)
(***************************************************************************)
MaxPosts == 2
MaxReports == 3
MaxDay == 1
MaxRows == 2
MaxUpserts == 3
MaxImported == 4

(***************************************************************************)
(* Input domains                                                           *)
(***************************************************************************)
Platforms == {"Twitter", "Instagram"}

\* a hashtag record without the 'tag' key: tag['tag'] raises KeyError
NoTag == "<no tag key>"

\* the hashtag lists handed to save_prediction
TagLists == {<<"a">>, <<"a", "a">>, <<"a", "b">>, <<"a", NoTag>>}

\* the predicted score handed to save_prediction
PredictedScore == 70

\* the hashtag sets of an imported row, in the order list(set(...)) yields
ImportTagLists == {<< >>, <<"a">>}

\* likes, comments, shares, impressions as entered by the operator
MetricInputs ==
    { [likes |-> 1, comments |-> 0, shares |-> 0, impressions |-> 0],
      [likes |-> 1, comments |-> 1, shares |-> 0, impressions |-> 100],
      [likes |-> 3, comments |-> 0, shares |-> 1, impressions |-> 100] }

CleanDays == {0, 1}

\* A text is the string made of its lower-case words joined by single
\* blanks (the first letter in upper case when upper), followed by dots full
\* stops, then "?" when question and one emoji of the scorer's list when
\* emoji.
Text(words, dots, question, emoji, upper) ==
    [words |-> words, dots |-> dots, question |-> question,
     emoji |-> emoji, upper |-> upper]

EmptyText == Text(<< >>, 0, FALSE, FALSE, FALSE)

PlainText == Text(<<"text">>, 0, FALSE, FALSE, FALSE)

Conns == {"c1", "c2"}

(***************************************************************************)
(* Exact arithmetic on REAL values                                         *)
(***************************************************************************)
RECURSIVE GCD(_, _)
GCD(a, b) == IF b = 0 THEN a ELSE GCD(b, a % b)

Rat(n, d) == LET g == GCD(n, d) IN <<n \div g, d \div g>>

RAdd(x, y) == Rat(x[1] * y[2] + y[1] * x[2], x[2] * y[2])

RMulInt(x, k) == Rat(x[1] * k, x[2])

RDivInt(x, k) == Rat(x[1], x[2] * k)

Zero == <<0, 1>>

Max(S) == CHOOSE x \in S : \A y \in S : y <= x

Min(a, b) == IF a < b THEN a ELSE b

(***************************************************************************)
(* Strings                                                                 *)
(***************************************************************************)
RECURSIVE SumLen(_)
SumLen(ws) == IF ws = << >> THEN 0 ELSE Len(Head(ws)) + SumLen(Tail(ws))

\* len(text)
TextLen(t) ==
    SumLen(t.words) + (IF Len(t.words) > 1 THEN Len(t.words) - 1 ELSE 0)
    + t.dots + (IF t.question THEN 1 ELSE 0) + (IF t.emoji THEN 1 ELSE 0)

(***************************************************************************)
(* The store                                                               *)
(***************************************************************************)
EmptyDb ==
    [ posts         |-> {},
      seq           |-> 0,
      hashtags      |-> << >>,
      performance   |-> {},
      perf_seq      |-> 0,
      hashtag_stats |-> {} ]

PostIds(d) == {p.id : p \in d.posts}

PostOf(d, id) == CHOOSE p \in d.posts : p.id = id

\* SELECT hashtag FROM hashtags WHERE post_id = ?
RECURSIVE HashtagsOf(_, _)
HashtagsOf(rows, id) ==
    IF rows = << >> THEN << >>
    ELSE LET rest == HashtagsOf(Tail(rows), id)
         IN IF Head(rows).post_id = id THEN <<Head(rows).hashtag>> \o rest
            ELSE rest

\* a rowid table without AUTOINCREMENT: one more than the largest id present
NextIdReuse(d) == Max(PostIds(d) \cup {0}) + 1

\* id INTEGER PRIMARY KEY AUTOINCREMENT
NextId(d) == d.seq + 1

\* an INSERT INTO posts that stores 0 for every predicted score
InsertPostNoScore(d, platform, content, predicted_score, created_at) ==
    LET id == NextId(d)
    IN [d EXCEPT !.posts = @ \cup {[id |-> id, platform |-> platform,
                                     content |-> content,
                                     content_length |-> TextLen(content),
                                     predicted_score |-> 0,
                                     created_at |-> created_at]},
                 !.seq = id]

InsertPost(d, platform, content, predicted_score, created_at) ==
    LET id == NextId(d)
    IN [d EXCEPT !.posts = @ \cup {[id |-> id, platform |-> platform,
                                     content |-> content,
                                     content_length |-> TextLen(content),
                                     predicted_score |-> predicted_score,
                                     created_at |-> created_at]},
                 !.seq = id]

InsertHashtag(d, post_id, tag) ==
    [d EXCEPT !.hashtags = Append(@, [post_id |-> post_id, hashtag |-> tag])]

\* ((likes + comments + shares) / impressions) * 100, or 0
EngagementRate(m) ==
    IF m.impressions > 0
    THEN Rat((m.likes + m.comments + m.shares) * 100, m.impressions)
    ELSE Zero

PerfRow(id, post_id, m, rate) ==
    [ id |-> id, post_id |-> post_id, likes |-> m.likes,
      comments |-> m.comments, shares |-> m.shares,
      impressions |-> m.impressions, engagement_rate |-> rate ]

\* a performance table without the UNIQUE constraint: nothing conflicts
PerfConflictsNone(perf, post_id) == {}

\* post_id INTEGER UNIQUE: the rows a new row for post_id conflicts with
PerfConflicts(perf, post_id) == {r \in perf : r.post_id = post_id}

\* INSERT OR REPLACE INTO performance
InsertOrReplacePerformance(d, post_id, m, rate) ==
    LET id == d.perf_seq + 1
    IN [d EXCEPT !.performance =
                     (@ \ PerfConflicts(@, post_id))
                        \cup {PerfRow(id, post_id, m, rate)},
                 !.perf_seq = id]

\* hashtag TEXT PRIMARY KEY / ON CONFLICT(hashtag)
StatsKey(r) == r.hashtag

\* the running mean: the expression read with the incremented total_uses
UpdatedAvgRunningMean(r, rate) ==
    RDivInt(RAdd(RMulInt(r.avg_engagement, r.total_uses), rate),
            r.total_uses + 1)

\* avg_engagement = (avg_engagement * (total_uses - 1) + ?) / total_uses,
\* every column on the right-hand side read from the row before the update
UpdatedAvg(r, rate) ==
    RDivInt(RAdd(RMulInt(r.avg_engagement, r.total_uses - 1), rate),
            r.total_uses)

\* INSERT INTO hashtag_stats ... ON CONFLICT(hashtag) DO UPDATE SET ...
UpsertStat(stats, hashtag, platform, rate) ==
    LET new == [ hashtag |-> hashtag, platform |-> platform,
                 total_uses |-> 1, avg_engagement |-> rate ]
        hit == {r \in stats : StatsKey(r) = StatsKey(new)}
    IN IF hit = {} THEN stats \cup {new}
       ELSE (stats \ hit) \cup
            { [r EXCEPT !.total_uses = r.total_uses + 1,
                        !.avg_engagement = UpdatedAvg(r, rate)] : r \in hit }

\* for hashtag in hashtags: upsert
RECURSIVE UpsertAll(_, _, _, _)
UpsertAll(stats, tags, platform, rate) ==
    IF tags = << >> THEN stats
    ELSE UpsertAll(UpsertStat(stats, Head(tags), platform, rate),
                   Tail(tags), platform, rate)

(***************************************************************************)
(* Statements of the operations, applied to a connection's view of the     *)
(* store.  Each returns the view after the statements that ran and whether *)
(* a statement raised.                                                     *)
(***************************************************************************)

\* statements that go on without a platform when the post is not there
UpdateStatementsAnyPost(d, post_id, m) ==
    LET rate == EngagementRate(m)
        d1   == InsertOrReplacePerformance(d, post_id, m, rate)
    IN IF post_id \notin PostIds(d1)
       THEN [raised |-> FALSE, db |-> d1]
       ELSE [raised |-> FALSE,
             db |-> [d1 EXCEPT !.hashtag_stats =
                        UpsertAll(@, HashtagsOf(d1.hashtags, post_id),
                                  PostOf(d1, post_id).platform, rate)]]

\* update_actual_performance, from the rate computation to the last upsert
UpdateStatements(d, post_id, m) ==
    LET rate == EngagementRate(m)
        d1   == InsertOrReplacePerformance(d, post_id, m, rate)
    IN IF post_id \notin PostIds(d1)
       THEN \* cursor.fetchone()[0] on None raises TypeError
            [raised |-> TRUE, db |-> d1]
       ELSE [raised |-> FALSE,
             db |-> [d1 EXCEPT !.hashtag_stats =
                        UpsertAll(@, HashtagsOf(d1.hashtags, post_id),
                                  PostOf(d1, post_id).platform, rate)]]

\* the rows of the CSV reader: the well-formed ones and one of each defect
GoodMetrics == {mm \in MetricInputs : mm.impressions > 0}

ZeroImpressions == CHOOSE mm \in MetricInputs : mm.impressions = 0

SomeMetrics == CHOOSE mm \in GoodMetrics : TRUE

ImportRows ==
    [ platform : Platforms,
      content  : {PlainText},
      numeric  : {TRUE},
      m        : GoodMetrics,
      hashtags : ImportTagLists ]
    \cup
    { [ platform |-> "Facebook", content |-> PlainText, numeric |-> TRUE,
        m |-> SomeMetrics, hashtags |-> <<"a">> ],
      [ platform |-> "Twitter", content |-> EmptyText, numeric |-> TRUE,
        m |-> SomeMetrics, hashtags |-> <<"a">> ],
      [ platform |-> "Twitter", content |-> PlainText, numeric |-> FALSE,
        m |-> SomeMetrics, hashtags |-> <<"a">> ],
      [ platform |-> "Twitter", content |-> PlainText, numeric |-> TRUE,
        m |-> ZeroImpressions, hashtags |-> <<"a">> ] }

\* the checks without the one on impressions
RowErrorNoImpressions(row) ==
    IF row.platform \notin {"Twitter", "Instagram"} THEN "platform"
    ELSE IF TextLen(row.content) = 0 THEN "content"
    ELSE IF ~row.numeric THEN "numbers"
    ELSE "none"

\* the checks of _import_row that raise ValueError before any write
RowError(row) ==
    IF row.platform \notin {"Twitter", "Instagram"} THEN "platform"
    ELSE IF TextLen(row.content) = 0 THEN "content"
    ELSE IF ~row.numeric THEN "numbers"
    ELSE IF row.m.impressions <= 0 THEN "impressions"
    ELSE "none"

RECURSIVE InsertHashtags(_, _, _)
InsertHashtags(d, post_id, tags) ==
    IF tags = << >> THEN d
    ELSE InsertHashtags(InsertHashtag(d, post_id, Head(tags)), post_id,
                        Tail(tags))

\* the score the importer stores as the prediction of a historical post
EstimateBaselineScore(content, platform, num_hashtags) ==
    Min(100,
        60 + (IF platform = "Twitter"
              THEN (IF 100 <= TextLen(content) /\ TextLen(content) <= 280
                    THEN 15 ELSE 0)
              ELSE (IF 138 <= TextLen(content) /\ TextLen(content) <= 2200
                    THEN 15 ELSE 0))
           + (IF platform = "Twitter" /\ 1 <= num_hashtags
                                     /\ num_hashtags <= 3 THEN 10
              ELSE IF platform = "Instagram" /\ 8 <= num_hashtags
                                            /\ num_hashtags <= 15 THEN 10
              ELSE 0)
           + (IF content.question THEN 5 ELSE 0)
           + (IF content.emoji THEN 5 ELSE 0))

\* _import_row after validation: post, hashtags, performance, hashtag stats
ImportStatements(d, row, created_at) ==
    LET rate == EngagementRate(row.m)
        d1   == InsertPost(d, row.platform, row.content,
                           EstimateBaselineScore(row.content, row.platform,
                                                 Len(row.hashtags)),
                           created_at)
        id   == d1.seq
        d2   == InsertHashtags(d1, id, row.hashtags)
        pid  == d2.perf_seq + 1
        d3   == [d2 EXCEPT !.performance = @ \cup {PerfRow(pid, id, row.m, rate)},
                           !.perf_seq = pid]
    IN [d3 EXCEPT !.hashtag_stats =
                      UpsertAll(@, row.hashtags, row.platform, rate)]

\* every post created before now - days, tracked or not
StaleTracked(d, t, days) == {p \in d.posts : p.created_at < t - days}

\* posts without performance row, created before now - days
Stale(d, t, days) ==
    { p \in d.posts :
        /\ PerfConflicts(d.performance, p.id) = {}
        /\ p.created_at < t - days }

RECURSIVE DeleteHashtagsOf(_, _)
DeleteHashtagsOf(rows, ids) ==
    IF rows = << >> THEN << >>
    ELSE LET rest == DeleteHashtagsOf(Tail(rows), ids)
         IN IF Head(rows).post_id \in ids THEN rest ELSE <<Head(rows)>> \o rest

\* the two DELETE statements of clean_old_predictions
CleanStatements(d, t, days) ==
    LET d1 == [d EXCEPT !.hashtags =
                   DeleteHashtagsOf(@, {p.id : p \in Stale(d, t, days)})]
    IN [d1 EXCEPT !.posts =
           { p \in @ : ~( /\ p.id \notin {r.post_id : r \in d1.performance}
                          /\ p.created_at < t - days ) }]

\* a connection in autocommit mode: the writes made so far stay
RollbackKeeps(committed, working) == working

\* a connection closed without commit loses its uncommitted writes
Rollback(committed, working) == committed

(***************************************************************************)
(* Connections                                                             *)
(***************************************************************************)
Idle == [op |-> "none", tx |-> FALSE]

\* a store without a write lock
LockFreeAlways(c) == TRUE

\* no other connection holds the write lock
LockFree(c) == \A o \in Conns \ {c} : ~cur[o].tx

\* call is what the step just taken returned to its caller; NoCall when the
\* step was not the return of a query, of the proposer or of the scorer
NoCall == [op |-> "none"]

Init ==
    /\ db = EmptyDb
    /\ now = 0
    /\ pc = [c \in Conns |-> "idle"]
    /\ cur = [c \in Conns |-> Idle]
    /\ wdb = [c \in Conns |-> EmptyDb]
    /\ issued = << >>
    /\ call = NoCall

\* time passes
Tick ==
    /\ now < MaxDay
    /\ now' = now + 1
    /\ call' = NoCall
    /\ UNCHANGED <<db, pc, cur, wdb, issued>>

(******************************* save_prediction ***************************)
SavePredictionCall(c, platform, content, tags, predicted_score) ==
    /\ pc[c] = "idle"
    /\ NextId(db) <= MaxPosts
    /\ pc' = [pc EXCEPT ![c] = "sp_post"]
    /\ cur' = [cur EXCEPT ![c] =
                  [op |-> "save_prediction", tx |-> FALSE,
                   platform |-> platform, content |-> content,
                   hashtags |-> tags, predicted_score |-> predicted_score,
                   i |-> 1, post_id |-> 0, new_ids |-> << >>]]
    /\ call' = NoCall
    /\ UNCHANGED <<db, now, wdb, issued>>

SavePredictionInsertPost(c) ==
    /\ pc[c] = "sp_post"
    /\ LockFree(c)
    /\ LET d == InsertPost(db, cur[c].platform, cur[c].content,
                           cur[c].predicted_score, now)
       IN /\ wdb' = [wdb EXCEPT ![c] = d]
          /\ cur' = [cur EXCEPT ![c].tx = TRUE, ![c].post_id = d.seq,
                                ![c].new_ids = <<d.seq>>]
    /\ pc' = [pc EXCEPT ![c] =
                 IF cur[c].hashtags = << >> THEN "commit" ELSE "sp_tags"]
    /\ call' = NoCall
    /\ UNCHANGED <<db, now, issued>>

SavePredictionInsertHashtag(c) ==
    /\ pc[c] = "sp_tags"
    /\ LET tag == cur[c].hashtags[cur[c].i]
       IN IF tag = NoTag
          THEN /\ pc' = [pc EXCEPT ![c] = "raised"]
               /\ UNCHANGED <<cur, wdb>>
          ELSE /\ wdb' = [wdb EXCEPT ![c] =
                             InsertHashtag(@, cur[c].post_id, tag)]
               /\ cur' = [cur EXCEPT ![c].i = @ + 1]
               /\ pc' = [pc EXCEPT ![c] =
                            IF cur[c].i = Len(cur[c].hashtags)
                            THEN "commit" ELSE "sp_tags"]
    /\ call' = NoCall
    /\ UNCHANGED <<db, now, issued>>

(************************* update_actual_performance ***********************)
UpdateActualPerformanceCall(c, post_id, m) ==
    /\ pc[c] = "idle"
    /\ db.perf_seq < MaxReports
    /\ pc' = [pc EXCEPT ![c] = "uap"]
    /\ cur' = [cur EXCEPT ![c] =
                  [op |-> "update_actual_performance", tx |-> FALSE,
                   post_id |-> post_id, m |-> m, new_ids |-> << >>]]
    /\ call' = NoCall
    /\ UNCHANGED <<db, now, wdb, issued>>

\* the button handler of the tracking tab
TrackingTab(c, post_id, m) ==
    IF m.impressions > 0
    THEN UpdateActualPerformanceCall(c, post_id, m)
    ELSE /\ pc[c] = "idle"
         /\ call' = NoCall
         /\ UNCHANGED <<db, now, pc, cur, wdb, issued>>

UpdateActualPerformanceRun(c) ==
    /\ pc[c] = "uap"
    /\ LockFree(c)
    /\ LET r == UpdateStatements(db, cur[c].post_id, cur[c].m)
       IN /\ wdb' = [wdb EXCEPT ![c] = r.db]
          /\ pc' = [pc EXCEPT ![c] = IF r.raised THEN "raised" ELSE "commit"]
    /\ cur' = [cur EXCEPT ![c].tx = TRUE]
    /\ call' = NoCall
    /\ UNCHANGED <<db, now, issued>>

(********************************* importer ********************************)
ImportCall(c) ==
    /\ pc[c] = "idle"
    /\ pc' = [pc EXCEPT ![c] = "import"]
    /\ cur' = [cur EXCEPT ![c] =
                  [op |-> "import_from_csv", tx |-> FALSE, read |-> 0,
                   imported_count |-> 0, skipped_count |-> 0,
                   errors |-> << >>, new_ids |-> << >>, row |-> << >>]]
    /\ call' = NoCall
    /\ UNCHANGED <<db, now, wdb, issued>>

\* one row of the reader; a row without a date column is dated today
ImportRow(c, row) ==
    /\ pc[c] = "import"
    /\ cur[c].read < MaxRows
    /\ LET view == IF cur[c].tx THEN wdb[c] ELSE db
       IN IF RowError(row) # "none"
          THEN /\ cur' = [cur EXCEPT ![c].read = @ + 1,
                                     ![c].row = <<row>>,
                                     ![c].skipped_count = @ + 1,
                                     ![c].errors = Append(@, RowError(row))]
               /\ UNCHANGED wdb
          ELSE /\ LockFree(c)
               /\ NextId(view) <= MaxPosts
               /\ view.perf_seq < MaxReports
               /\ LET d == ImportStatements(view, row, now)
                  IN /\ wdb' = [wdb EXCEPT ![c] = d]
                     /\ cur' = [cur EXCEPT ![c].read = @ + 1,
                                           ![c].row = <<row>>,
                                           ![c].imported_count = @ + 1,
                                           ![c].tx = TRUE,
                                           ![c].new_ids = Append(@, d.seq)]
    /\ call' = NoCall
    /\ UNCHANGED <<db, now, pc, issued>>

\* the reader is exhausted: conn.commit()
ImportCommit(c) ==
    /\ pc[c] = "import"
    /\ db' = IF cur[c].tx THEN wdb[c] ELSE db
    /\ issued' = issued \o cur[c].new_ids
    /\ pc' = [pc EXCEPT ![c] = "idle"]
    /\ cur' = [cur EXCEPT ![c] = Idle]
    /\ wdb' = [wdb EXCEPT ![c] = EmptyDb]
    /\ call' = NoCall
    /\ UNCHANGED <<now>>

(*************************** clean_old_predictions *************************)
CleanCall(c, days) ==
    /\ pc[c] = "idle"
    /\ IF Cardinality(Stale(db, now, days)) = 0
       THEN UNCHANGED <<pc, cur>>
       ELSE /\ pc' = [pc EXCEPT ![c] = "clean_confirm"]
            /\ cur' = [cur EXCEPT ![c] =
                          [op |-> "clean_old_predictions", tx |-> FALSE,
                           days |-> days, new_ids |-> << >>]]
    /\ call' = NoCall
    /\ UNCHANGED <<db, now, wdb, issued>>

CleanConfirm(c, confirm) ==
    /\ pc[c] = "clean_confirm"
    /\ IF confirm = "yes"
       THEN /\ pc' = [pc EXCEPT ![c] = "clean_delete"]
            /\ UNCHANGED cur
       ELSE /\ pc' = [pc EXCEPT ![c] = "idle"]
            /\ cur' = [cur EXCEPT ![c] = Idle]
    /\ call' = NoCall
    /\ UNCHANGED <<db, now, wdb, issued>>

CleanDelete(c) ==
    /\ pc[c] = "clean_delete"
    /\ LockFree(c)
    /\ wdb' = [wdb EXCEPT ![c] = CleanStatements(db, now, cur[c].days)]
    /\ cur' = [cur EXCEPT ![c].tx = TRUE]
    /\ pc' = [pc EXCEPT ![c] = "commit"]
    /\ call' = NoCall
    /\ UNCHANGED <<db, now, issued>>

(************************** end of a transaction ***************************)
\* conn.commit(); conn.close(); return
Commit(c) ==
    /\ pc[c] = "commit"
    /\ db' = wdb[c]
    /\ issued' = issued \o cur[c].new_ids
    /\ pc' = [pc EXCEPT ![c] = "idle"]
    /\ cur' = [cur EXCEPT ![c] = Idle]
    /\ wdb' = [wdb EXCEPT ![c] = EmptyDb]
    /\ call' = IF cur[c].op = "analyze_content"
               THEN [op |-> "analyze_content", raised |-> FALSE,
                     post_id |-> cur[c].post_id, result |-> cur[c].ret]
               ELSE NoCall
    /\ UNCHANGED <<now>>

\* the first write finds the database locked until the busy timeout expires
Busy(c) ==
    /\ pc[c] \in {"sp_post", "uap", "clean_delete"}
    /\ ~LockFree(c)
    /\ pc' = [pc EXCEPT ![c] = "raised"]
    /\ call' = NoCall
    /\ UNCHANGED <<db, now, cur, wdb, issued>>

\* the exception leaves the operation; the connection is dropped uncommitted
Abort(c) ==
    /\ pc[c] = "raised"
    /\ db' = IF cur[c].tx THEN Rollback(db, wdb[c]) ELSE db
    /\ pc' = [pc EXCEPT ![c] = "idle"]
    /\ cur' = [cur EXCEPT ![c] = Idle]
    /\ wdb' = [wdb EXCEPT ![c] = EmptyDb]
    /\ call' = IF cur[c].op = "analyze_content"
               THEN [op |-> "analyze_content", raised |-> TRUE]
               ELSE NoCall
    /\ UNCHANGED <<now, issued>>

(***************************************************************************)
(* The queries of the store                                                *)
(***************************************************************************)
RLess(x, y) == x[1] * y[2] < y[1] * x[2]

\* the value of a Python expression that is either None or a number
None == << >>

Some(x) == <<x>>

\* bool(x): None and 0 are false
Truthy(x) == x # None /\ x[1] # 0

SetToSeqs(S) ==
    {s \in [1..Cardinality(S) -> S] : \A i, j \in DOMAIN s : i # j => s[i] # s[j]}

\* ORDER BY <column> DESC: the rows in a non-increasing order of the column;
\* the order among equal values is the one the engine produces for this table
OrderByDesc(S, column) ==
    CHOOSE s \in SetToSeqs(S) :
        \A i, j \in DOMAIN s : i < j => ~RLess(s[i][column], s[j][column])

\* LIMIT n, [:n]
Limit(s, n) == SubSeq(s, 1, Min(Len(s), n))

\* a dict of get_top_hashtags
TopHashtag(hashtag, total_uses, avg) ==
    [hashtag |-> hashtag, total_uses |-> total_uses, avg_engagement |-> avg]

\* SELECT ... FROM hashtag_stats WHERE platform = ? AND total_uses >= 2
\* ORDER BY avg_engagement DESC LIMIT ?
GetTopHashtags(d, platform, limit) ==
    LET rows == {r \in d.hashtag_stats :
                    r.platform = platform /\ r.total_uses >= 2}
        s    == Limit(OrderByDesc(rows, "avg_engagement"), limit)
    IN [i \in DOMAIN s |->
           TopHashtag(s[i].hashtag, s[i].total_uses, s[i].avg_engagement)]

\* set(re.findall(r'\b[a-zA-Z]{4,}\b', content.lower()))
Keywords(content) == {content.words[i] : i \in {j \in DOMAIN content.words :
                                                   Len(content.words[j]) >= 4}}

\* len(a & b) / len(a | b) if a | b else 0
Similarity(a, b) ==
    IF a \cup b = {} THEN Zero
    ELSE Rat(Cardinality(a \cap b), Cardinality(a \cup b))

\* the same join without the platform condition
SuccessfulRowsAnyPlatform(d, platform) ==
    UNION { { [post_id |-> p.id, content |-> p.content,
               engagement_rate |-> perf.engagement_rate,
               hashtags |-> HashtagsOf(d.hashtags, p.id)] :
                perf \in {r \in d.performance :
                             /\ r.post_id = p.id
                             /\ RLess(<<3, 1>>, r.engagement_rate)} } :
            p \in d.posts }

\* the rows of posts JOIN performance JOIN hashtags ... GROUP BY p.id,
\* before the join with hashtags drops the posts that have none
SuccessfulRows(d, platform) ==
    UNION { { [post_id |-> p.id, content |-> p.content,
               engagement_rate |-> perf.engagement_rate,
               hashtags |-> HashtagsOf(d.hashtags, p.id)] :
                perf \in {r \in d.performance :
                             /\ r.post_id = p.id
                             /\ RLess(<<3, 1>>, r.engagement_rate)} } :
            p \in {q \in d.posts : q.platform = platform} }

\* the query with a LEFT JOIN on hashtags: posts without hashtag rows stay
GetSimilarPostsLeftJoin(d, content, platform, limit) ==
    LET keywords == Keywords(content)
        joined   == SuccessfulRows(d, platform)
        rows     == Limit(OrderByDesc(joined, "engagement_rate"), 2 * limit)
        scored   == [i \in DOMAIN rows |->
                        [post_id |-> rows[i].post_id,
                         content |-> rows[i].content,
                         cut |-> TextLen(rows[i].content) > 100,
                         engagement_rate |-> rows[i].engagement_rate,
                         hashtags |-> rows[i].hashtags,
                         similarity |->
                             Similarity(keywords, Keywords(rows[i].content))]]
        results  == SelectSeq(scored,
                              LAMBDA r : RLess(<<1, 5>>, r.similarity))
    IN Limit(results, limit)

GetSimilarSuccessfulPosts(d, content, platform, limit) ==
    LET keywords == Keywords(content)
        joined   == {r \in SuccessfulRows(d, platform) : r.hashtags # << >>}
        rows     == Limit(OrderByDesc(joined, "engagement_rate"), 2 * limit)
        scored   == [i \in DOMAIN rows |->
                        [post_id |-> rows[i].post_id,
                         content |-> rows[i].content,
                         cut |-> TextLen(rows[i].content) > 100,
                         engagement_rate |-> rows[i].engagement_rate,
                         hashtags |-> rows[i].hashtags,
                         similarity |->
                             Similarity(keywords, Keywords(rows[i].content))]]
        results  == SelectSeq(scored,
                              LAMBDA r : RLess(<<1, 5>>, r.similarity))
    IN \* sorted(results, reverse=True) keeps the order of the query
       Limit(results, limit)

\* performance JOIN posts WHERE p.platform = ?
TrackedRows(d, platform) ==
    {r \in d.performance :
        \E p \in d.posts : p.id = r.post_id /\ p.platform = platform}

RECURSIVE SumEngagement(_)
SumEngagement(rows) ==
    IF rows = {} THEN Zero
    ELSE LET r == CHOOSE x \in rows : TRUE
         IN RAdd(r.engagement_rate, SumEngagement(rows \ {r}))

\* AVG(engagement_rate): None over no rows
AvgEngagement(rows) ==
    IF rows = {} THEN None
    ELSE Some(RDivInt(SumEngagement(rows), Cardinality(rows)))

RECURSIVE SumLength(_, _)
SumLength(d, rows) ==
    IF rows = {} THEN 0
    ELSE LET r == CHOOSE x \in rows : TRUE
         IN PostOf(d, r.post_id).content_length + SumLength(d, rows \ {r})

\* SELECT AVG(p.content_length) ... WHERE p.platform = ? AND
\* perf.engagement_rate > (SELECT AVG(engagement_rate) FROM performance);
\* int(result) if result else None
OptimalLength(d, platform) ==
    LET mean == AvgEngagement(d.performance)
        rows == {r \in TrackedRows(d, platform) :
                    mean # None /\ RLess(mean[1], r.engagement_rate)}
    IN IF rows = {} \/ SumLength(d, rows) = 0 THEN None
       ELSE Some(SumLength(d, rows) \div Cardinality(rows))

\* SELECT hashtag, avg_engagement FROM hashtag_stats WHERE platform = ?
\* AND total_uses >= 3 ORDER BY avg_engagement DESC LIMIT 1
BestHashtag(d, platform) ==
    LET rows == {r \in d.hashtag_stats :
                    r.platform = platform /\ r.total_uses >= 3}
    IN Limit(OrderByDesc(rows, "avg_engagement"), 1)

GetLearningInsights(d, platform) ==
    LET tracked == TrackedRows(d, platform)
        avg     == AvgEngagement(tracked)
        best    == BestHashtag(d, platform)
        insights ==
            [ total_posts |->
                  Cardinality({p \in d.posts : p.platform = platform}),
              tracked_posts |-> Cardinality(tracked),
              avg_engagement |->
                  IF avg # None /\ avg[1] # Zero THEN avg[1] ELSE Zero,
              optimal_length |-> OptimalLength(d, platform) ]
    IN IF best = << >> THEN insights
       ELSE insights @@
            [ best_hashtag |-> [tag |-> best[1].hashtag,
                                engagement |-> best[1].avg_engagement] ]

(***************************************************************************)
(* The proposer                                                            *)
(*                                                                         *)
(* A hashtag record is a Python dict: a function whose DOMAIN is its set   *)
(* of keys.  Its reason is a sequence of fragments, the text the oracle    *)
(* or the fallback wrote followed by the notes appended to it.             *)
(***************************************************************************)
\* str.lower() on the vocabulary of the model
Lower(s) == IF s = "AI" THEN "ai" ELSE IF s = "Launch" THEN "launch" ELSE s

Fragment(kind, avg) == [kind |-> kind, avg |-> avg]

\* num_hashtags, target_count
NumHashtags(platform) == IF platform = "Twitter" THEN 3 ELSE 12

CommonWords ==
    {"this", "that", "with", "from", "have", "been", "were", "their",
     "would", "about", "when", "just", "like", "some", "what", "your",
     "will", "they", "them", "into", "than", "more", "very", "can"}

\* a generic pool of eleven tags
GenericTagsEleven ==
    <<"content", "socialmedia", "marketing", "community", "growth", "tips",
      "inspiration", "motivation", "business", "success", "trending">>

GenericTags ==
    <<"content", "socialmedia", "marketing", "community", "growth", "tips",
      "inspiration", "motivation", "business", "success", "trending",
      "viral", "engage", "share", "follow">>

\* re.findall(r'\b[a-zA-Z]{3,}\b', text.lower()) without the common words
FallbackKeywords(text) ==
    SelectSeq(text.words, LAMBDA w : Len(w) >= 3 /\ w \notin CommonWords)

\* any(h['tag'].lower() == name for h in hashtags)
HasTag(hashtags, name) ==
    \E i \in 1..Len(hashtags) : Lower(hashtags[i].tag) = name

\* strategy 1: the first target_count keywords, repeated words included
KeywordHashtags(keywords, target) ==
    [i \in 1..Min(Len(keywords), target) |->
        [tag |-> keywords[i], relevance |-> 85 - ((i - 1) * 5),
         popularity |-> "Medium",
         reason |-> <<Fragment("Extracted from content keywords", Zero)>>]]

\* strategy 2: the proven hashtags not yet in the list
RECURSIVE FillProven(_, _, _)
FillProven(hashtags, top, target) ==
    IF top = << >> \/ Len(hashtags) >= target THEN hashtags
    ELSE LET t == Head(top)
         IN IF HasTag(hashtags, Lower(t.hashtag))
            THEN FillProven(hashtags, Tail(top), target)
            ELSE FillProven(
                     Append(hashtags,
                            [tag |-> t.hashtag, relevance |-> 90,
                             popularity |-> "High",
                             reason |-> <<Fragment("Proven performer",
                                                   t.avg_engagement)>>]),
                     Tail(top), target)

\* strategy 3: the generic tags not yet in the list
RECURSIVE FillGeneric(_, _, _)
FillGeneric(hashtags, pool, target) ==
    IF pool = << >> \/ Len(hashtags) >= target THEN hashtags
    ELSE IF HasTag(hashtags, Head(pool))
         THEN FillGeneric(hashtags, Tail(pool), target)
         ELSE FillGeneric(
                  Append(hashtags,
                         [tag |-> Head(pool), relevance |-> 70,
                          popularity |-> "Medium",
                          reason |-> <<Fragment("General engagement hashtag",
                                                Zero)>>]),
                  Tail(pool), target)

\* a fallback chain without its generic pool
FallbackHashtagsNoPool(text, platform, top_hashtags) ==
    LET target == NumHashtags(platform)
        h1 == KeywordHashtags(FallbackKeywords(text), target)
        h2 == FillProven(h1, top_hashtags, target)
    IN SubSeq(h2, 1, Min(Len(h2), target))

FallbackHashtags(text, platform, top_hashtags) ==
    LET target == NumHashtags(platform)
        h1 == KeywordHashtags(FallbackKeywords(text), target)
        h2 == FillProven(h1, top_hashtags, target)
        h3 == FillGeneric(h2, GenericTags, target)
    IN SubSeq(h3, 1, Min(Len(h3), target))

\* one candidate against one proven hashtag (the body of the inner loop);
\* the candidate has the keys the statements read
BoostOne(tag, top_tag) ==
    IF Lower(tag.tag) = Lower(top_tag.hashtag)
    THEN [tag EXCEPT !.relevance = Min(100, @ + 10),
                     !.reason = Append(@, Fragment("[Data:",
                                                   top_tag.avg_engagement))]
    ELSE tag

RECURSIVE BoostTag(_, _)
BoostTag(tag, top) ==
    IF top = << >> THEN tag
    ELSE BoostTag(BoostOne(tag, Head(top)), Tail(top))

\* a KeyError of the boosting loops: they read tag['tag'] for every pair and
\* tag['relevance'], tag['reason'] for every match
BoostRaises(hashtags, top) ==
    \E i \in 1..Len(hashtags) :
        /\ top # << >>
        /\ \/ "tag" \notin DOMAIN hashtags[i]
           \/ /\ \E j \in 1..Len(top) :
                     Lower(hashtags[i].tag) = Lower(top[j].hashtag)
              /\ ~({"relevance", "reason"} \subseteq DOMAIN hashtags[i])

\* an oracle path that falls back unless the list has more than N records
GenerateHashtagsStrictlyMore(text, platform, top_hashtags, response) ==
    LET num_hashtags == NumHashtags(platform)
        hashtags == response.list
    IN IF response.kind # "list" THEN
           FallbackHashtags(text, platform, top_hashtags)
       ELSE IF Len(hashtags) <= num_hashtags THEN
           FallbackHashtags(text, platform, top_hashtags)
       ELSE IF BoostRaises(hashtags, top_hashtags) THEN
           FallbackHashtags(text, platform, top_hashtags)
       ELSE SubSeq([i \in 1..Len(hashtags) |->
                       BoostTag(hashtags[i], top_hashtags)],
                   1, num_hashtags)

\* What self.ollama.generate returned and what the parsing made of it:
\* "none" (no response), "no_json" (no array of records in the text),
\* "bad_json" (json.loads raises) or "list" (the decoded list).
GenerateHashtagsWithLearning(text, platform, top_hashtags, response) ==
    LET num_hashtags == NumHashtags(platform)
        hashtags == response.list
    IN IF response.kind # "list" THEN
           FallbackHashtags(text, platform, top_hashtags)
       ELSE IF Len(hashtags) < num_hashtags THEN
           FallbackHashtags(text, platform, top_hashtags)
       ELSE IF BoostRaises(hashtags, top_hashtags) THEN
           FallbackHashtags(text, platform, top_hashtags)
       ELSE SubSeq([i \in 1..Len(hashtags) |->
                       BoostTag(hashtags[i], top_hashtags)],
                   1, num_hashtags)

(***************************************************************************)
(* The scorer.  Its weighted sum is computed in hundredths, exactly.       *)
(***************************************************************************)
\* int(p / q) for q > 0: towards zero
TruncDiv(p, q) == IF p >= 0 THEN p \div q ELSE -((-p) \div q)

Clamp(x) == Min(100, IF x > 0 THEN x ELSE 0)

\* text[0].isupper()
FirstIsUpper(text) == text.words # << >> /\ text.upper

\* text[0] of an empty text raises IndexError
ContentQualityRaises(text) == TextLen(text) = 0

\* a length score whose bands include the deviations 50 and 100
LengthScoreAtMost(text, platform, insights) ==
    IF Truthy(insights.optimal_length)
    THEN LET length_diff ==
                 IF TextLen(text) >= insights.optimal_length[1]
                 THEN TextLen(text) - insights.optimal_length[1]
                 ELSE insights.optimal_length[1] - TextLen(text)
         IN IF length_diff <= 50 THEN 25
            ELSE IF length_diff <= 100 THEN 15
            ELSE 5
    ELSE IF platform = "Twitter" /\ 100 <= TextLen(text)
                                /\ TextLen(text) <= 280 THEN 20
    ELSE IF platform = "Instagram" /\ 138 <= TextLen(text)
                                  /\ TextLen(text) <= 2200 THEN 20
    ELSE 0

\* the score added for the length of the text
LengthScore(text, platform, insights) ==
    IF Truthy(insights.optimal_length)
    THEN LET length_diff ==
                 IF TextLen(text) >= insights.optimal_length[1]
                 THEN TextLen(text) - insights.optimal_length[1]
                 ELSE insights.optimal_length[1] - TextLen(text)
         IN IF length_diff < 50 THEN 25
            ELSE IF length_diff < 100 THEN 15
            ELSE 5
    ELSE IF platform = "Twitter" /\ 100 <= TextLen(text)
                                /\ TextLen(text) <= 280 THEN 20
    ELSE IF platform = "Instagram" /\ 138 <= TextLen(text)
                                  /\ TextLen(text) <= 2200 THEN 20
    ELSE 0

ScoreContentQualityLearned(text, platform, insights) ==
    Clamp(50 + LengthScore(text, platform, insights)
             + (IF text.question THEN 10 ELSE 0)
             + (IF text.emoji THEN 10 ELSE 0)
             + (IF FirstIsUpper(text) THEN 5 ELSE 0))

\* h['relevance'] or h['reason'] of a record without the key: KeyError
HashtagStrategyRaises(hashtags) ==
    \E i \in DOMAIN hashtags :
        ~({"relevance", "reason"} \subseteq DOMAIN hashtags[i])

RECURSIVE SumRelevance(_)
SumRelevance(hashtags) ==
    IF hashtags = << >> THEN 0
    ELSE Head(hashtags).relevance + SumRelevance(Tail(hashtags))

\* '[Data:' in h['reason']
DataBacked(h) == \E k \in DOMAIN h.reason : h.reason[k].kind = "[Data:"

\* the score added for the number of hashtags
CountScore(count, platform) ==
    IF platform = "Twitter"
    THEN IF 1 <= count /\ count <= 3 THEN 25 ELSE -15
    ELSE IF 8 <= count /\ count <= 15 THEN 25
         ELSE IF 5 <= count /\ count < 8 THEN 15
         ELSE 0

ScoreHashtagStrategy(hashtags, platform) ==
    IF hashtags = << >> THEN 0
    ELSE LET count == Len(hashtags)
             data_backed ==
                 Cardinality({i \in DOMAIN hashtags : DataBacked(hashtags[i])})
         IN Clamp(50 + CountScore(count, platform)
                     + TruncDiv(SumRelevance(hashtags) - (50 * count),
                                2 * count)
                     + Min(15, data_backed * 5))

\* the words of the model's vocabulary in which one of 'new', 'now',
\* 'today', 'breaking', 'update', 'trending' occurs
TimelyWords ==
    {"new", "news", "now", "today", "breaking", "update", "trending"}

\* datetime.now().weekday(), day 0 of the model being a Monday
Weekday(t) == t % 7

ScoreTiming(text, t) ==
    Min(100, 60 + (IF \E i \in DOMAIN text.words : text.words[i] \in TimelyWords
                   THEN 20 ELSE 0)
                + (IF Weekday(t) \in {1, 2, 3} THEN 10 ELSE 0))

CalculateDataConfidence(insights) ==
    IF insights.tracked_posts = 0 THEN 30
    ELSE IF insights.tracked_posts < 10 THEN 50
    ELSE IF insights.tracked_posts < 50 THEN 75
    ELSE 95

\* int(0.35 * cq + 0.35 * hs + 0.20 * tr + 0.10 * dc)
EngagementPotential(cq, hs, tr, dc) ==
    ((35 * cq) + (35 * hs) + (20 * tr) + (10 * dc)) \div 100

ScoreWithLearningRaises(text, hashtags) ==
    ContentQualityRaises(text) \/ HashtagStrategyRaises(hashtags)

ScoreWithLearning(text, hashtags, platform, insights, t) ==
    LET cq == ScoreContentQualityLearned(text, platform, insights)
        hs == ScoreHashtagStrategy(hashtags, platform)
        tr == ScoreTiming(text, t)
        dc == CalculateDataConfidence(insights)
    IN [ content_quality |-> cq, hashtag_strategy |-> hs,
         timing_relevance |-> tr, data_confidence |-> dc,
         engagement_potential |-> EngagementPotential(cq, hs, tr, dc) ]

\* abs(len(text) - optimal_len)
LengthGap(text, optimal_len) ==
    IF TextLen(text) >= optimal_len THEN TextLen(text) - optimal_len
    ELSE optimal_len - TextLen(text)

\* the messages whose length rule fires at a gap of 100 already
GenerateInsightsFrom100(text, platform, scores, insights) ==
    LET confidence ==
            IF scores.data_confidence >= 75
            THEN <<[kind |-> "High Confidence",
                    tracked_posts |-> insights.tracked_posts]>>
            ELSE IF scores.data_confidence >= 50
            THEN <<[kind |-> "Growing Dataset",
                    tracked_posts |-> insights.tracked_posts]>>
            ELSE <<[kind |-> "Building Knowledge"]>>
        length ==
            IF /\ "optimal_length" \in DOMAIN insights
               /\ Truthy(insights.optimal_length)
               /\ LengthGap(text, insights.optimal_length[1]) >= 100
            THEN <<[kind |-> "Data shows",
                    optimal_len |-> insights.optimal_length[1],
                    platform |-> platform]>>
            ELSE << >>
        best ==
            IF "best_hashtag" \in DOMAIN insights
            THEN <<[kind |-> "Top performer",
                    tag |-> insights.best_hashtag.tag,
                    engagement |-> insights.best_hashtag.engagement]>>
            ELSE << >>
        tier ==
            IF scores.engagement_potential >= 80 THEN <<[kind |-> "Excellent"]>>
            ELSE IF scores.engagement_potential >= 65
            THEN <<[kind |-> "Good post"]>>
            ELSE <<[kind |-> "Needs optimization"]>>
    IN confidence \o length \o best \o tier

\* the list of messages, each a record of its kind and the values it quotes
GenerateInsightsWithLearning(text, platform, scores, insights) ==
    LET confidence ==
            IF scores.data_confidence >= 75
            THEN <<[kind |-> "High Confidence",
                    tracked_posts |-> insights.tracked_posts]>>
            ELSE IF scores.data_confidence >= 50
            THEN <<[kind |-> "Growing Dataset",
                    tracked_posts |-> insights.tracked_posts]>>
            ELSE <<[kind |-> "Building Knowledge"]>>
        length ==
            IF /\ "optimal_length" \in DOMAIN insights
               /\ Truthy(insights.optimal_length)
               /\ LengthGap(text, insights.optimal_length[1]) > 100
            THEN <<[kind |-> "Data shows",
                    optimal_len |-> insights.optimal_length[1],
                    platform |-> platform]>>
            ELSE << >>
        best ==
            IF "best_hashtag" \in DOMAIN insights
            THEN <<[kind |-> "Top performer",
                    tag |-> insights.best_hashtag.tag,
                    engagement |-> insights.best_hashtag.engagement]>>
            ELSE << >>
        tier ==
            IF scores.engagement_potential >= 80 THEN <<[kind |-> "Excellent"]>>
            ELSE IF scores.engagement_potential >= 65
            THEN <<[kind |-> "Good post"]>>
            ELSE <<[kind |-> "Needs optimization"]>>
    IN confidence \o length \o best \o tier

(***************************************************************************)
(* The queries as operations: each opens a connection, runs its SELECT     *)
(* statements and closes the connection                                    *)
(***************************************************************************)
\* a closed connection that wrote something and never committed
ClosedDirty(d) == [d EXCEPT !.seq = @ + 1]

\* conn.close() of a connection that only ran SELECT statements
Closed(d) == d

GetTopHashtagsCall(c, platform, limit) ==
    /\ pc[c] = "idle"
    /\ call' = [op |-> "get_top_hashtags", platform |-> platform,
                limit |-> limit,
                result |-> GetTopHashtags(db, platform, limit)]
    /\ db' = Closed(db)
    /\ UNCHANGED <<now, pc, cur, wdb, issued>>

GetSimilarSuccessfulPostsCall(c, content, platform, limit) ==
    /\ pc[c] = "idle"
    /\ call' = [op |-> "get_similar_successful_posts", content |-> content,
                platform |-> platform, limit |-> limit,
                result |-> GetSimilarSuccessfulPosts(db, content, platform,
                                                     limit)]
    /\ db' = Closed(db)
    /\ UNCHANGED <<now, pc, cur, wdb, issued>>

\* again: the step before was the same query for the same platform
GetLearningInsightsCall(c, platform) ==
    /\ pc[c] = "idle"
    /\ call' = [op |-> "get_learning_insights", platform |-> platform,
                again |-> /\ call.op = "get_learning_insights"
                          /\ call.platform = platform,
                result |-> GetLearningInsights(db, platform)]
    /\ db' = Closed(db)
    /\ UNCHANGED <<now, pc, cur, wdb, issued>>

(***************************************************************************)
(* analyze_content: ask the store, propose, score, record the prediction   *)
(***************************************************************************)
\* the values save_prediction reads from the records: tag['tag'] and
\* tag['relevance'], a KeyError when one of them is missing
TagsToSave(hashtags) ==
    [i \in DOMAIN hashtags |->
        IF {"tag", "relevance"} \subseteq DOMAIN hashtags[i]
        THEN hashtags[i].tag ELSE NoTag]

AnalyzeContentCall(c, text, platform, response) ==
    /\ pc[c] = "idle"
    /\ NextId(db) <= MaxPosts
    /\ LET top_hashtags  == GetTopHashtags(db, platform, 15)
           similar_posts == GetSimilarSuccessfulPosts(db, text, platform, 5)
           insights      == GetLearningInsights(db, platform)
           hashtags      == GenerateHashtagsWithLearning(
                                text, platform, top_hashtags, response)
           scores        == ScoreWithLearning(text, hashtags, platform,
                                              insights, now)
       IN IF ScoreWithLearningRaises(text, hashtags)
          THEN /\ pc' = [pc EXCEPT ![c] = "raised"]
               /\ cur' = [cur EXCEPT ![c] =
                             [op |-> "analyze_content", tx |-> FALSE]]
          ELSE /\ pc' = [pc EXCEPT ![c] = "sp_post"]
               /\ cur' = [cur EXCEPT ![c] =
                             [op |-> "analyze_content", tx |-> FALSE,
                              platform |-> platform, content |-> text,
                              hashtags |-> TagsToSave(hashtags),
                              predicted_score |-> scores.engagement_potential,
                              i |-> 1, post_id |-> 0, new_ids |-> << >>,
                              ret |-> [hashtags |-> hashtags,
                                       performance_score |-> scores,
                                       insights |->
                                           GenerateInsightsWithLearning(
                                               text, platform, scores,
                                               insights),
                                       similar_posts |-> similar_posts,
                                       learning_insights |-> insights,
                                       top_hashtags |-> top_hashtags,
                                       response |-> response]]]
    /\ call' = NoCall
    /\ UNCHANGED <<db, now, wdb, issued>>

(***************************************************************************)
(* Specifications                                                          *)
(***************************************************************************)
PostIdInputs == 1..MaxPosts

\* the steps of the operation a session runs on connection c, its inputs
\* drawn from the given platforms, hashtag lists, metrics and CSV rows
SessionStep(c, platforms, taglists, metrics, rows) ==
    \/ \E p \in platforms, t \in taglists :
           SavePredictionCall(c, p, PlainText, t, PredictedScore)
    \/ SavePredictionInsertPost(c)
    \/ SavePredictionInsertHashtag(c)
    \/ \E id \in PostIdInputs, m \in metrics : TrackingTab(c, id, m)
    \/ \E id \in PostIdInputs, m \in metrics :
           UpdateActualPerformanceCall(c, id, m)
    \/ UpdateActualPerformanceRun(c)
    \/ ImportCall(c)
    \/ \E row \in rows : ImportRow(c, row)
    \/ ImportCommit(c)
    \/ \E days \in CleanDays : CleanCall(c, days)
    \/ \E a \in {"yes", "no"} : CleanConfirm(c, a)
    \/ CleanDelete(c)
    \/ Commit(c)
    \/ Abort(c)

\* one session, every input
Next ==
    \/ Tick
    \/ SessionStep("c1", Platforms, TagLists, MetricInputs, ImportRows)

Spec == Init /\ [][Next]_vars

\* one session, one platform and one well-formed hashtag list
CoreTagLists == {<<"a">>, <<"a", NoTag>>}

CoreRows ==
    {r \in ImportRows : /\ r.platform = "Twitter" /\ r.hashtags # << >>
                        /\ r.content # EmptyText /\ r.numeric}

NextCore ==
    \/ Tick
    \/ SessionStep("c1", {"Twitter"}, CoreTagLists, MetricInputs, CoreRows)

SpecCore == Init /\ [][NextCore]_vars

\* two sessions that record predictions and report outcomes at the same time
NextConc ==
    \E c \in Conns :
        \/ SavePredictionCall(c, "Twitter", PlainText, <<"a">>,
                              PredictedScore)
        \/ SavePredictionInsertPost(c)
        \/ SavePredictionInsertHashtag(c)
        \/ \E id \in PostIdInputs, m \in GoodMetrics :
               UpdateActualPerformanceCall(c, id, m)
        \/ UpdateActualPerformanceRun(c)
        \/ Commit(c)
        \/ Busy(c)
        \/ Abort(c)

SpecConc == Init /\ [][NextConc]_vars

\* a session that records predictions, reports outcomes and asks the store
LearnTexts ==
    { Text(<<"cloud", "launch", "team">>, 0, FALSE, FALSE, FALSE),
      Text(<<"cloud", "data", "tools">>, 0, FALSE, FALSE, FALSE),
      Text(<<"cloud", "launch", "news">>, 4, FALSE, FALSE, FALSE) }

LimitInputs == {1, 5}

\* the posts of the session carry the first text; the queries ask about all
StoredTexts == {Text(<<"cloud", "launch", "team">>, 0, FALSE, FALSE, FALSE)}

LearnStep(c, platforms, texts, asked, taglists, metrics, limits) ==
    \/ \E p \in platforms, x \in texts, t \in taglists :
           SavePredictionCall(c, p, x, t, PredictedScore)
    \/ SavePredictionInsertPost(c)
    \/ SavePredictionInsertHashtag(c)
    \/ \E id \in PostIdInputs, m \in metrics :
           UpdateActualPerformanceCall(c, id, m)
    \/ UpdateActualPerformanceRun(c)
    \/ Commit(c)
    \/ Abort(c)
    \/ \E p \in platforms, n \in limits : GetTopHashtagsCall(c, p, n)
    \/ \E p \in platforms, x \in asked, n \in limits :
           GetSimilarSuccessfulPostsCall(c, x, p, n)
    \/ \E p \in platforms : GetLearningInsightsCall(c, p)

NextLearn ==
    LearnStep("c1", Platforms, StoredTexts, LearnTexts, {<<"a">>},
              GoodMetrics, {5})

SpecLearn == Init /\ [][NextLearn]_vars

\* the same session, its hashtag lists with and without a repeated tag
NextLearnTags ==
    LearnStep("c1", Platforms, StoredTexts, LearnTexts,
              {<<"a">>, <<"a", "a">>, <<"b">>}, GoodMetrics, LimitInputs)

SpecLearnTags == Init /\ [][NextLearnTags]_vars

(***************************************************************************)
(* The proposer applied to drawn inputs, one application per behaviour     *)
(***************************************************************************)
ProposerTexts ==
    { EmptyText,
      Text(<<"great", "great", "day">>, 0, FALSE, FALSE, TRUE),
      Text(<<"this", "new", "launch">>, 1, FALSE, FALSE, FALSE),
      Text(<<"content", "ai">>, 0, TRUE, FALSE, FALSE),
      Text(<<"one", "two", "three", "four", "five", "six", "seven", "eight",
             "nine", "ten", "eleven", "twelve", "thirteen">>,
           0, FALSE, FALSE, FALSE) }

TopLists ==
    { << >>,
      <<TopHashtag("launch", 2, <<4, 1>>), TopHashtag("great", 3, <<2, 1>>)>>,
      <<TopHashtag("AI", 2, <<4, 1>>), TopHashtag("ai", 2, <<3, 1>>)>> }

OracleTags ==
    <<"Launch", "ai", "growth", "news", "team", "tech", "data", "cloud",
      "code", "apps", "devs", "labs", "web">>

\* the i-th record of an oracle answer, the keys in missing left out
OracleRecord(i, missing) ==
    LET full == [tag |-> OracleTags[i], relevance |-> 100 - (5 * i),
                 popularity |-> "High",
                 reason |-> <<Fragment("why this works", Zero)>>]
    IN [k \in DOMAIN full \ missing |-> full[k]]

OracleList(n, missing) == [i \in 1..n |-> OracleRecord(i, missing)]

OracleLengths == {2, 3, 4, 12, 13}

Responses ==
    { [kind |-> k, list |-> << >>] : k \in {"none", "no_json", "bad_json"} }
    \cup
    { [kind |-> "list", list |-> OracleList(n, missing)] :
        n \in OracleLengths,
        missing \in {{}, {"tag"}, {"relevance"}, {"reason"}} }

GenerateHashtagsCall(text, platform, top_hashtags, response) ==
    /\ call = NoCall
    /\ call' = [op |-> "generate", text |-> text, platform |-> platform,
                top_hashtags |-> top_hashtags, response |-> response,
                result |-> GenerateHashtagsWithLearning(
                               text, platform, top_hashtags, response)]
    /\ UNCHANGED <<db, now, pc, cur, wdb, issued>>

FallbackHashtagsCall(text, platform, top_hashtags) ==
    /\ call = NoCall
    /\ call' = [op |-> "fallback", text |-> text, platform |-> platform,
                top_hashtags |-> top_hashtags,
                result |-> FallbackHashtags(text, platform, top_hashtags)]
    /\ UNCHANGED <<db, now, pc, cur, wdb, issued>>

NextPropose ==
    \/ \E text \in ProposerTexts, platform \in Platforms, top \in TopLists,
          response \in Responses :
           GenerateHashtagsCall(text, platform, top, response)
    \/ \E text \in ProposerTexts, platform \in Platforms, top \in TopLists :
           FallbackHashtagsCall(text, platform, top)

SpecPropose == Init /\ [][NextPropose]_vars

(***************************************************************************)
(* The scorer applied to drawn inputs, one application per behaviour       *)
(***************************************************************************)
ScoreLengths == {10, 11, 109, 110, 111, 159, 160, 161}

ScoreTexts ==
    { Text(<<"cloud">>, n - 5, q, e, u) :
        n \in ScoreLengths, q \in BOOLEAN, e \in BOOLEAN, u \in BOOLEAN }

InsightInputs ==
    [ total_posts : {60}, tracked_posts : {0, 5, 10, 50},
      avg_engagement : {Zero}, optimal_length : {None, Some(60)} ]

\* n records of one relevance, the first backed of them with a data note
HashtagList(n, relevance, backed) ==
    [i \in 1..n |->
        [tag |-> "cloud", relevance |-> relevance, popularity |-> "High",
         reason |-> IF i <= backed
                    THEN <<Fragment("why this works", Zero),
                           Fragment("[Data:", <<4, 1>>)>>
                    ELSE <<Fragment("why this works", Zero)>>]]

ScenarioList ==
    [i \in 1..3 |->
        [tag |-> "cloud", relevance |-> 100 - (5 * i), popularity |-> "High",
         reason |-> <<Fragment("why this works", Zero)>>]]

HashtagLists ==
    {ScenarioList, << >>}
    \cup { HashtagList(n, r, b) :
             n \in {1, 3, 4, 5, 7, 8, 12, 15, 16}, r \in {30, 45, 50, 85, 100},
             b \in {0, 1, 3, 4} }

ScoreContentQualityCall(text, platform, insights) ==
    /\ call = NoCall
    /\ call' = [op |-> "score_content_quality", text |-> text,
                platform |-> platform, insights |-> insights,
                raised |-> ContentQualityRaises(text),
                result |-> IF ContentQualityRaises(text) THEN 0
                           ELSE ScoreContentQualityLearned(text, platform,
                                                           insights)]
    /\ UNCHANGED <<db, now, pc, cur, wdb, issued>>

ScoreHashtagStrategyCall(hashtags, platform) ==
    /\ call = NoCall
    /\ call' = [op |-> "score_hashtag_strategy", hashtags |-> hashtags,
                platform |-> platform,
                raised |-> HashtagStrategyRaises(hashtags),
                result |-> IF HashtagStrategyRaises(hashtags) THEN 0
                           ELSE ScoreHashtagStrategy(hashtags, platform)]
    /\ UNCHANGED <<db, now, pc, cur, wdb, issued>>

ScoreWithLearningCall(text, hashtags, platform, insights) ==
    /\ call = NoCall
    /\ ~ScoreWithLearningRaises(text, hashtags)
    /\ call' = [op |-> "score_with_learning", text |-> text,
                hashtags |-> hashtags, platform |-> platform,
                insights |-> insights,
                result |-> ScoreWithLearning(text, hashtags, platform,
                                             insights, now)]
    /\ UNCHANGED <<db, now, pc, cur, wdb, issued>>

\* the scores the messages are keyed to, around their thresholds
ScoreInputs ==
    [ data_confidence : {30, 49, 50, 74, 75, 95},
      engagement_potential : {64, 65, 79, 80} ]

\* insights with and without a best hashtag
MessageInsights ==
    InsightInputs
    \cup { i @@ [best_hashtag |-> [tag |-> "cloud", engagement |-> <<4, 1>>]] :
             i \in InsightInputs }

GenerateInsightsCall(text, platform, scores, insights) ==
    /\ call = NoCall
    /\ call' = [op |-> "generate_insights", text |-> text,
                platform |-> platform, scores |-> scores,
                insights |-> insights,
                result |-> GenerateInsightsWithLearning(text, platform,
                                                        scores, insights)]
    /\ UNCHANGED <<db, now, pc, cur, wdb, issued>>

NextScore ==
    \/ Tick
    \/ \E text \in {x \in ScoreTexts : ~x.emoji /\ ~x.question /\ ~x.upper},
          platform \in Platforms, scores \in ScoreInputs,
          insights \in MessageInsights :
           GenerateInsightsCall(text, platform, scores, insights)
    \/ \E text \in ScoreTexts \cup {EmptyText}, platform \in Platforms,
          insights \in InsightInputs :
           ScoreContentQualityCall(text, platform, insights)
    \/ \E hashtags \in HashtagLists \cup {OracleList(3, {"relevance"})},
          platform \in Platforms :
           ScoreHashtagStrategyCall(hashtags, platform)
    \/ \E text \in {x \in ScoreTexts : ~x.emoji},
          hashtags \in {ScenarioList, HashtagList(12, 45, 0),
                        HashtagList(4, 85, 3)},
          platform \in Platforms, insights \in InsightInputs :
           ScoreWithLearningCall(text, hashtags, platform, insights)

SpecScore == Init /\ [][NextScore]_vars

(***************************************************************************)
(* analyze_content in a session                                            *)
(***************************************************************************)
\* a session that analyzes posts and reports their outcomes
AnalyzeResponses ==
    { [kind |-> "none", list |-> << >>] }
    \cup
    { [kind |-> "list", list |-> OracleList(3, missing)] :
        missing \in {{}, {"tag"}, {"relevance"}} }

NextAnalyze ==
    \/ \E text \in StoredTexts, response \in AnalyzeResponses :
           AnalyzeContentCall("c1", text, "Twitter", response)
    \/ SavePredictionInsertPost("c1")
    \/ SavePredictionInsertHashtag("c1")
    \/ \E id \in PostIdInputs :
           UpdateActualPerformanceCall("c1", id, SomeMetrics)
    \/ UpdateActualPerformanceRun("c1")
    \/ Commit("c1")
    \/ Abort("c1")

SpecAnalyze == Init /\ [][NextAnalyze]_vars

(***************************************************************************)
(* The upsert statement of update_actual_performance and of the importer,  *)
(* executed for one hashtag after the other; call keeps, for every         *)
(* hashtag, the rates the statement was executed with                      *)
(***************************************************************************)
UpsertRates == {EngagementRate(mm) : mm \in MetricInputs}

UpsertTags == {"a", "b"}

UpsertCall(hashtag, platform, rate) ==
    LET rates == IF call.op = "upsert" THEN call.rates
                 ELSE [t \in UpsertTags |-> << >>]
    IN /\ call.op \in {"none", "upsert"}
       /\ \A c \in Conns : pc[c] = "idle"
       /\ Len(rates[hashtag]) < MaxUpserts
       /\ db' = [db EXCEPT !.hashtag_stats =
                               UpsertStat(@, hashtag, platform, rate)]
       /\ call' = [op |-> "upsert",
                   rates |-> [rates EXCEPT ![hashtag] = Append(@, rate)]]
       /\ UNCHANGED <<now, pc, cur, wdb, issued>>

NextUpsert ==
    \E hashtag \in UpsertTags, platform \in Platforms, rate \in UpsertRates :
        UpsertCall(hashtag, platform, rate)

SpecUpsert == Init /\ [][NextUpsert]_vars

(***************************************************************************)
(* get_similar_successful_posts asked about a store the importer has       *)
(* filled: posts with an outcome each, some of them without hashtag rows   *)
(***************************************************************************)
QueryText == Text(<<"cloud", "launch", "team">>, 0, FALSE, FALSE, FALSE)

SimilarText == Text(<<"cloud", "launch", "news">>, 0, FALSE, FALSE, FALSE)

OtherText == Text(<<"fresh", "bread", "today">>, 0, FALSE, FALSE, FALSE)

\* historical posts with the engagement rates 4.0 and 6.0: similar ones
\* with a hashtag, and at 6.0 a similar one without and another one with
SimilarRows ==
    { r \in [ platform : {"Twitter"},
              content  : {SimilarText, OtherText},
              numeric  : {TRUE},
              m        : { [likes |-> n, comments |-> 0, shares |-> 0,
                            impressions |-> 100] : n \in {4, 6} },
              hashtags : ImportTagLists ] :
        \/ r.content = SimilarText /\ r.hashtags # << >>
        \/ r.content = SimilarText /\ r.m.likes = 6
        \/ r.hashtags # << >> /\ r.m.likes = 6 }

\* the store after the importer has imported the rows and committed
RECURSIVE Imported(_, _)
Imported(d, rows) ==
    IF rows = << >> THEN d
    ELSE Imported(ImportStatements(d, Head(rows), 0), Tail(rows))

InitSimilar ==
    /\ \E rows \in [1..MaxImported -> SimilarRows] :
           /\ db = Imported(EmptyDb, rows)
           /\ issued = [i \in 1..MaxImported |-> i]
    /\ now = 0
    /\ pc = [c \in Conns |-> "idle"]
    /\ cur = [c \in Conns |-> Idle]
    /\ wdb = [c \in Conns |-> EmptyDb]
    /\ call = NoCall

NextSimilar ==
    \E limit \in LimitInputs :
        GetSimilarSuccessfulPostsCall("c1", QueryText, "Twitter", limit)

SpecSimilar == InitSimilar /\ [][NextSimilar]_vars

(***************************************************************************)
(* The importer alone                                                      *)
(***************************************************************************)
NextImport ==
    \/ Tick
    \/ ImportCall("c1")
    \/ \E row \in ImportRows : ImportRow("c1", row)
    \/ ImportCommit("c1")

SpecImport == Init /\ [][NextImport]_vars

(***************************************************************************)
(* Properties                                                              *)
(***************************************************************************)
Range(q) == {q[i] : i \in 1..Len(q)}

TagsOfPost(d, id) == Range(HashtagsOf(d.hashtags, id))

OutcomeBacked(d) == {p \in d.posts : PerfConflicts(d.performance, p.id) # {}}

RateOf(d, id) ==
    (CHOOSE r \in PerfConflicts(d.performance, id) : TRUE).engagement_rate

RECURSIVE SumRates(_, _)
SumRates(d, S) ==
    IF S = {} THEN Zero
    ELSE LET p == CHOOSE x \in S : TRUE
         IN RAdd(RateOf(d, p.id), SumRates(d, S \ {p}))

\* the outcome-backed posts of a platform that carry a tag
Carriers(d, tag, platform) ==
    {p \in OutcomeBacked(d) : p.platform = platform /\ tag \in TagsOfPost(d, p.id)}

TrueMean(d, tag, platform) ==
    LET S == Carriers(d, tag, platform)
    IN IF S = {} THEN Zero ELSE RDivInt(SumRates(d, S), Cardinality(S))

\* the hashtag_stats rows of a tag
StatsOf(d, tag) == {r \in d.hashtag_stats : r.hashtag = tag}

\* total_uses of a tag, 0 when it has no row
TotalUses(d, tag) ==
    IF StatsOf(d, tag) = {} THEN 0
    ELSE (CHOOSE r \in StatsOf(d, tag) : TRUE).total_uses

\* connection c ends a report by committing it
ReportCommit(c) ==
    /\ pc[c] = "commit"
    /\ cur[c].op = "update_actual_performance"
    /\ pc'[c] = "idle"

\* C1: every hashtag_stats row's avg_engagement is the arithmetic mean of the
\* engagement rates recorded for the outcome-backed posts that carry the tag
\* on the row's platform.
C1_AvgIsMean ==
    \A r \in db.hashtag_stats :
        r.avg_engagement = TrueMean(db, r.hashtag, r.platform)

\* avg_engagement and total_uses of the rows of a tag
Aggregate(d, tag) ==
    {<<r.total_uses, r.avg_engagement>> : r \in StatsOf(d, tag)}

\* C2: two outcome reports on distinct posts that share a hashtag leave the
\* same avg_engagement and total_uses of that hashtag in either order.
C2_OrderIndependent ==
    \A p, q \in db.posts : \A m1, m2 \in MetricInputs :
        \A tag \in TagsOfPost(db, p.id) \cap TagsOfPost(db, q.id) :
            (p.id # q.id /\ p.platform = q.platform) =>
                Aggregate(UpdateStatements(
                    UpdateStatements(db, p.id, m1).db, q.id, m2).db, tag)
                = Aggregate(UpdateStatements(
                    UpdateStatements(db, q.id, m2).db, p.id, m1).db, tag)

\* C3: a report with impressions <= 0 raises: it never reaches its commit and
\* the committed tables stay as they are.
C3_InvalidMetricsRejected ==
    [][\A c \in Conns :
          (cur[c].op = "update_actual_performance"
              /\ cur[c].m.impressions <= 0)
          => (pc'[c] # "commit" /\ db' = db)]_vars

\* C4: every tag of an outcome-backed post has an aggregate row of that
\* post's platform, so a tag reported on both platforms has two rows.
C4_RowPerTagAndPlatform ==
    \A p \in OutcomeBacked(db) : \A tag \in TagsOfPost(db, p.id) :
        \E r \in db.hashtag_stats :
            r.hashtag = tag /\ r.platform = p.platform

\* connection c takes a step of its operation
Moved(c) == pc'[c] # pc[c] \/ cur'[c] # cur[c]

\* C5: save_prediction is all-or-nothing: a step of it either leaves the
\* committed store as it is, or is its commit and adds the post together with
\* exactly the hashtag rows it was called with.
C5_SaveAllOrNothing ==
    [][\A c \in Conns :
          (cur[c].op = "save_prediction" /\ Moved(c)) =>
              \/ db' = db
              \/ /\ pc[c] = "commit"
                 /\ cur[c].post_id \notin PostIds(db)
                 /\ PostIds(db') = PostIds(db) \cup {cur[c].post_id}
                 /\ HashtagsOf(db'.hashtags, cur[c].post_id) = cur[c].hashtags
                 /\ \A id \in PostIds(db) :
                        HashtagsOf(db'.hashtags, id) = HashtagsOf(db.hashtags, id)
                 /\ db'.performance = db.performance
                 /\ db'.hashtag_stats = db.hashtag_stats]_vars

\* an insert of save_prediction has failed after the post and a hashtag row
\* were written to the open transaction
C5_Witness ==
    \E c \in Conns :
        /\ pc[c] = "raised"
        /\ cur[c].op = "save_prediction"
        /\ cur[c].post_id \in PostIds(wdb[c])
        /\ HashtagsOf(wdb[c].hashtags, cur[c].post_id) # << >>
        /\ cur[c].post_id \notin PostIds(db)

\* the post ids the performance table mentions before or after a step
PerfIds == {r.post_id : r \in db.performance} \cup {r.post_id : r \in db'.performance}

\* C6: the performance table holds at most one row per post_id, and that row
\* carries the metrics and the engagement rate of the most recent report of
\* the post: a report's commit leaves exactly its row, and no other step
\* changes the row of an existing post.
C6_OneOutcomePerPost ==
    [][/\ \A r1, r2 \in db'.performance : r1.post_id = r2.post_id => r1 = r2
       /\ \A c \in Conns :
             ReportCommit(c) =>
                 \E r \in db'.performance :
                     /\ PerfConflicts(db'.performance, cur[c].post_id) = {r}
                     /\ r.likes = cur[c].m.likes
                     /\ r.comments = cur[c].m.comments
                     /\ r.shares = cur[c].m.shares
                     /\ r.impressions = cur[c].m.impressions
                     /\ r.engagement_rate = EngagementRate(cur[c].m)
       /\ \A id \in PerfIds :
             PerfConflicts(db'.performance, id) # PerfConflicts(db.performance, id)
             => \/ \E c \in Conns : ReportCommit(c) /\ cur[c].post_id = id
                \/ id \notin PostIds(db)]_vars

\* a post has been reported twice and its first row replaced
C6_Witness ==
    /\ db.performance # {}
    /\ db.perf_seq > Cardinality(db.performance)

\* C7: re-reporting a post that already has an outcome does not increment the
\* total_uses of its tags a second time.
C7_ReReportOverwrites ==
    [][\A c \in Conns :
          (ReportCommit(c) /\ PerfConflicts(db.performance, cur[c].post_id) # {})
          => \A tag \in TagsOfPost(db, cur[c].post_id) :
                 TotalUses(db', tag) = TotalUses(db, tag)]_vars

AllTags == {"a", "b"}

\* C8: one outcome report grows the total_uses of every distinct tag of the
\* post by exactly 1, and leaves the tags not on the post unchanged.
C8_EachDistinctTagOnce ==
    [][\A c \in Conns :
          ReportCommit(c) =>
              \A tag \in AllTags :
                  TotalUses(db', tag) =
                      TotalUses(db, tag)
                      + (IF tag \in TagsOfPost(db, cur[c].post_id) THEN 1 ELSE 0)]_vars

\* the number of hashtag rows of a post that hold the tag
Occurrences(d, id, tag) ==
    Cardinality({i \in 1..Len(HashtagsOf(d.hashtags, id)) :
                    HashtagsOf(d.hashtags, id)[i] = tag})

\* C9: concurrent outcome reports do not interleave: the commit of a report
\* changes the committed store exactly as the whole report applied to the
\* store as committed just before, so the reports take effect one after the
\* other in commit order and each adds its own uses to the shared aggregate.
C9_ReportsSerialized ==
    [][\A c \in Conns :
          ReportCommit(c) =>
              /\ db' = UpdateStatements(db, cur[c].post_id, cur[c].m).db
              /\ \A tag \in AllTags :
                     TotalUses(db', tag) =
                         TotalUses(db, tag)
                         + Occurrences(db, cur[c].post_id, tag)]_vars

\* a report holds the open transaction while a report for another post that
\* shares a hashtag has been called on the other connection
C9_Witness ==
    \E c, o \in Conns :
        /\ c # o
        /\ pc[c] = "commit" /\ cur[c].op = "update_actual_performance"
        /\ pc[o] = "uap"
        /\ cur[c].post_id # cur[o].post_id
        /\ {cur[c].post_id, cur[o].post_id} \subseteq PostIds(db)
        /\ TagsOfPost(db, cur[c].post_id) \cap TagsOfPost(db, cur[o].post_id) # {}

\* C10: post identifiers are unique and issued in strictly increasing order,
\* also after clean has deleted posts.
C10_IdsIncrease ==
    /\ \A i, j \in 1..Len(issued) : i < j => issued[i] < issued[j]
    /\ \A p, q \in db.posts : p.id = q.id => p = q
    /\ PostIds(db) \subseteq Range(issued)

\* clean has deleted a post and a later post has been given its identifier
C10_Witness ==
    \E i \in Range(issued) \ PostIds(db) : \E p \in db.posts : p.id > i

(***************************************************************************)
(* C11: on the oracle path and on the fallback path the proposer returns   *)
(* exactly N hashtags, 3 for Twitter and 12 for Instagram.                 *)
(***************************************************************************)
C11_ExactlyN ==
    call.op \in {"generate", "fallback"} =>
        Len(call.result) = IF call.platform = "Twitter" THEN 3 ELSE 12

\* the oracle answered with more than 12 usable records for Instagram
C11_Witness ==
    /\ call.op = "generate"
    /\ call.platform = "Instagram"
    /\ call.response.kind = "list"
    /\ Len(call.response.list) > 12
    /\ ~BoostRaises(call.response.list, call.top_hashtags)
    /\ Len(call.result) = 12
    /\ call.result[12].tag = call.response.list[12].tag

(***************************************************************************)
(* C13: every post returned by get_similar_successful_posts has a Jaccard  *)
(* similarity to the query above 0.2, an engagement rate above 3.0 and the *)
(* platform that was asked for.                                            *)
(***************************************************************************)
LongWords(text) == {w \in Range(text.words) : Len(w) >= 4}

C13_SimilarPostsQualify ==
    call.op = "get_similar_successful_posts" =>
        \A i \in DOMAIN call.result :
            LET p    == PostOf(db, call.result[i].post_id)
                mine == LongWords(call.content)
                its  == LongWords(p.content)
            IN /\ 5 * Cardinality(mine \cap its) > Cardinality(mine \cup its)
               /\ \E r \in db.performance :
                      /\ r.post_id = p.id
                      /\ r.engagement_rate[1] > 3 * r.engagement_rate[2]
               /\ p.platform = call.platform

\* a post is returned while a successful post of the other platform exists
C13_Witness ==
    /\ call.op = "get_similar_successful_posts"
    /\ Len(call.result) = 1
    /\ \E p \in db.posts, r \in db.performance :
           /\ p.platform # call.platform
           /\ r.post_id = p.id
           /\ r.engagement_rate[1] > 3 * r.engagement_rate[2]

(***************************************************************************)
(* C14: get_top_hashtags returns at most limit aggregates, all of the      *)
(* given platform and with total_uses >= 2, in non-increasing order of     *)
(* avg_engagement, nothing when no aggregate qualifies, and never a tag    *)
(* for which a single outcome was reported.                                *)
(***************************************************************************)
\* the outcomes reported for posts that carry the tag
ReportsOf(d, tag) ==
    {r \in d.performance : tag \in TagsOfPost(d, r.post_id)}

C14_TopHashtags ==
    call.op = "get_top_hashtags" =>
        LET res  == call.result
            rows == {r \in db.hashtag_stats :
                        r.platform = call.platform /\ r.total_uses >= 2}
        IN /\ Len(res) <= call.limit
           /\ \A i \in DOMAIN res :
                  \E r \in rows : /\ r.hashtag = res[i].hashtag
                                  /\ r.total_uses = res[i].total_uses
                                  /\ r.avg_engagement = res[i].avg_engagement
           /\ \A i, j \in DOMAIN res :
                  i < j => res[j].avg_engagement[1] * res[i].avg_engagement[2]
                           <= res[i].avg_engagement[1] * res[j].avg_engagement[2]
           /\ rows = {} => res = << >>
           /\ \A i \in DOMAIN res :
                  \* every report ever made is still in the performance table
                  db.perf_seq = Cardinality(db.performance) =>
                      Cardinality(ReportsOf(db, res[i].hashtag)) # 1

RECURSIVE SumChars(_)
SumChars(S) ==
    IF S = {} THEN 0
    ELSE LET p == CHOOSE x \in S : TRUE
         IN TextLen(p.content) + SumChars(S \ {p})

\* the outcome-backed posts of the platform above the platform's mean rate
AboveOwnMean(d, platform) ==
    LET own   == {p \in OutcomeBacked(d) : p.platform = platform}
        total == SumRates(d, own)
    IN {p \in own :
           RateOf(d, p.id)[1] * total[2] * Cardinality(own)
               > total[1] * RateOf(d, p.id)[2]}

C16_OptimalLength ==
    call.op = "get_learning_insights" =>
        LET above == AboveOwnMean(db, call.platform)
            found == call.result.optimal_length
        IN IF above = {} THEN found = None
           ELSE /\ found # None
                /\ found[1] * Cardinality(above) = SumChars(above)

(***************************************************************************)
(* C17: engagement_potential is the weighted sum 0.35 content_quality +    *)
(* 0.35 hashtag_strategy + 0.20 timing_relevance + 0.10 data_confidence    *)
(* rounded to the nearest integer (a tie may go either way).               *)
(***************************************************************************)
C17_RoundedWeightedSum ==
    call.op = "score_with_learning" =>
        LET s == call.result
            hundredths == (35 * s.content_quality) + (35 * s.hashtag_strategy)
                          + (20 * s.timing_relevance)
                          + (10 * s.data_confidence)
        IN /\ (100 * s.engagement_potential) - hundredths <= 50
           /\ hundredths - (100 * s.engagement_potential) <= 50

(***************************************************************************)
(* C18: for a non-empty list hashtag_strategy is 50 plus the band bonus    *)
(* plus floor((mean relevance - 50) / 2) plus min(15, 5 per data-backed    *)
(* tag), clamped to 0..100; Twitter relevances 95, 90, 85 give 95.         *)
(***************************************************************************)
RECURSIVE RelevanceTotal(_, _)
RelevanceTotal(hs, n) ==
    IF n = 0 THEN 0 ELSE hs[n].relevance + RelevanceTotal(hs, n - 1)

C18_HashtagStrategy ==
    (call.op = "score_hashtag_strategy" /\ ~call.raised
        /\ call.hashtags # << >>) =>
        LET hs    == call.hashtags
            n     == Len(hs)
            band  == IF call.platform = "Twitter"
                     THEN (IF n \in 1..3 THEN 25 ELSE -15)
                     ELSE (IF n \in 8..15 THEN 25
                           ELSE IF n \in 5..7 THEN 15 ELSE 0)
            \* floor((total / n - 50) / 2)
            half  == (RelevanceTotal(hs, n) - (50 * n)) \div (2 * n)
            notes == Cardinality({i \in 1..n :
                         \E k \in 1..Len(hs[i].reason) :
                             hs[i].reason[k].kind = "[Data:"})
            bonus == IF 5 * notes < 15 THEN 5 * notes ELSE 15
            sum   == 50 + band + half + bonus
        IN /\ call.result = IF sum < 0 THEN 0 ELSE IF sum > 100 THEN 100 ELSE sum
           /\ (hs = ScenarioList /\ call.platform = "Twitter") =>
                  call.result = 95

(***************************************************************************)
(* C19: with a known optimal length the text length adds 25 to             *)
(* content_quality when it deviates by less than 50, 15 when by 50 to 99   *)
(* and 5 otherwise, whatever the platform's canonical range.               *)
(***************************************************************************)
Deviation(c) ==
    LET n == TextLen(c.text)
        o == c.insights.optimal_length[1]
    IN IF n >= o THEN n - o ELSE o - n

\* the part of the score that is not the 50 points of every text nor the
\* points for a question mark, an emoji or a leading capital
LengthPart(c) ==
    c.result - 50 - (IF c.text.question THEN 10 ELSE 0)
             - (IF c.text.emoji THEN 10 ELSE 0)
             - (IF c.text.upper THEN 5 ELSE 0)

C19_LengthContribution ==
    (call.op = "score_content_quality" /\ ~call.raised
        /\ call.insights.optimal_length # None) =>
        /\ Deviation(call) < 50 => LengthPart(call) = 25
        /\ (Deviation(call) >= 50 /\ Deviation(call) < 100) =>
               LengthPart(call) = 15
        /\ Deviation(call) >= 100 => LengthPart(call) = 5

\* a Twitter text inside the canonical range, 50 away from the optimum
C19_Witness ==
    /\ call.op = "score_content_quality"
    /\ ~call.raised
    /\ call.platform = "Twitter"
    /\ call.insights.optimal_length = Some(60)
    /\ TextLen(call.text) = 110
    /\ LengthPart(call) = 15

(***************************************************************************)
(* C12: whatever the oracle answers (nothing, undecodable text, a short    *)
(* list, records without tag, relevance or reason), analyze_content        *)
(* returns to its caller without an error.                                 *)
(***************************************************************************)
C12_AnalyzeNeverRaises ==
    call.op = "analyze_content" => ~call.raised

(***************************************************************************)
(* C20: the importer records one error for a row that fails validation     *)
(* and writes nothing for it, imports every valid row, commits the         *)
(* imported rows at the end, and counts every row read as imported or      *)
(* skipped.                                                                *)
(***************************************************************************)
FailsValidation(row) ==
    \/ row.platform \notin {"Twitter", "Instagram"}
    \/ row.content = EmptyText
    \/ ~row.numeric
    \/ row.m.impressions <= 0

\* the tables as the importing connection sees them
ImporterView(tx, working, committed) == IF tx THEN working ELSE committed

C20_BadRowsSkipped ==
    [][ LET a == cur["c1"]
            b == cur'["c1"]
        IN /\ (pc["c1"] = "import" /\ pc'["c1"] = "import"
                  /\ b.read = a.read + 1) =>
                 LET row    == b.row[1]
                     before == ImporterView(a.tx, wdb["c1"], db)
                     after  == ImporterView(b.tx, wdb'["c1"], db')
                 IN /\ b.imported_count + b.skipped_count = b.read
                    /\ IF FailsValidation(row)
                       THEN /\ after = before
                            /\ Len(b.errors) = Len(a.errors) + 1
                            /\ b.skipped_count = a.skipped_count + 1
                       ELSE /\ b.errors = a.errors
                            /\ b.imported_count = a.imported_count + 1
                            /\ \E p \in after.posts \ before.posts :
                                   /\ p.platform = row.platform
                                   /\ p.content = row.content
                                   /\ \E r \in after.performance :
                                          r.post_id = p.id
                            /\ before.posts \subseteq after.posts
                            /\ Cardinality(after.posts)
                                   = Cardinality(before.posts) + 1
           /\ (pc["c1"] = "import" /\ pc'["c1"] = "idle") =>
                 /\ db' = ImporterView(a.tx, wdb["c1"], db)
                 /\ Cardinality(db'.posts)
                        = Cardinality(db.posts) + a.imported_count ]_vars

\* a valid row was imported after a row of the same batch was skipped
C20_Witness ==
    /\ pc["c1"] = "import"
    /\ cur["c1"].skipped_count = 1
    /\ cur["c1"].imported_count = 1
    /\ ~FailsValidation(cur["c1"].row[1])
    /\ Cardinality(wdb["c1"].posts) = Cardinality(db.posts) + 1

(***************************************************************************)
(* C21: clean_old_predictions deletes exactly the posts without outcome    *)
(* that are older than the given days, with their hashtag rows and nothing *)
(* else, only on the path through the confirmation; a declined             *)
(* confirmation changes nothing, and no post with an outcome ever          *)
(* disappears from the store.                                              *)
(***************************************************************************)
\* the posts of d without outcome that were created more than days before t
OldUntracked(d, t, days) ==
    {p \in d.posts : /\ \A r \in d.performance : r.post_id # p.id
                     /\ p.created_at + days < t}

Usable(list) ==
    \A i \in DOMAIN list : {"tag", "relevance", "reason"} \subseteq
                               DOMAIN list[i]

C23_BoostOnce ==
    (/\ call.op = "generate"
     /\ call.response.kind = "list"
     /\ Usable(call.response.list)
     /\ Len(call.response.list) >= Len(call.result)
     /\ \A i \in DOMAIN call.result :
            call.result[i].tag = call.response.list[i].tag) =>
        \A i \in DOMAIN call.result :
            LET given   == call.response.list[i]
                got     == call.result[i]
                matches == {j \in DOMAIN call.top_hashtags :
                              Lower(call.top_hashtags[j].hashtag) =
                                  Lower(given.tag)}
            IN IF matches = {}
               THEN got = given
               ELSE /\ got.relevance = Min(100, given.relevance + 10)
                    /\ Len(got.reason) = Len(given.reason) + 1

(***************************************************************************)
(* C24: the messages of _generate_insights_with_learning are, in this      *)
(* order: one confidence message (Building below 50, Growing from 50 to    *)
(* 74, High from 75), the length message if and only if an optimal length  *)
(* is known and the length of the text differs from it by more than 100,   *)
(* the best-hashtag message if and only if a best hashtag exists, and one  *)
(* tier message (excellent from 80, good from 65, needs optimization       *)
(* below).                                                                 *)
(***************************************************************************)
KindsOf(messages) == [i \in DOMAIN messages |-> messages[i].kind]

C24_MessageOrder ==
    call.op = "generate_insights" =>
        LET dc    == call.scores.data_confidence
            ep    == call.scores.engagement_potential
            known == call.insights.optimal_length # None
            gap   == IF known
                     THEN TextLen(call.text) - call.insights.optimal_length[1]
                     ELSE 0
            first == IF dc < 50 THEN "Building Knowledge"
                     ELSE IF dc <= 74 THEN "Growing Dataset"
                     ELSE "High Confidence"
            last  == IF ep >= 80 THEN "Excellent"
                     ELSE IF ep >= 65 THEN "Good post"
                     ELSE "Needs optimization"
        IN KindsOf(call.result) =
               <<first>>
               \o (IF known /\ (gap > 100 \/ gap < -100)
                   THEN <<"Data shows">> ELSE << >>)
               \o (IF "best_hashtag" \in DOMAIN call.insights
                   THEN <<"Top performer">> ELSE << >>)
               \o <<last>>

\* all four messages, the length of the text 101 away from the optimal one
C24_Witness ==
    /\ call.op = "generate_insights"
    /\ Len(call.result) = 4
    /\ call.scores.data_confidence = 74
    /\ call.scores.engagement_potential = 79
    /\ TextLen(call.text) = call.insights.optimal_length[1] + 101
    /\ call.result[2].kind = "Data shows"
    /\ call.result[3].kind = "Top performer"

(***************************************************************************)
(* C25: when analyze_content returns a post_id, the store holds a          *)
(* committed post with that id whose predicted_score is the returned       *)
(* engagement_potential and whose hashtag rows are the returned hashtags,  *)
(* in their order; while analyze_content runs nothing of it is visible in  *)
(* the store, and when it ends in an error the store is as it was.         *)
(***************************************************************************)
ReturnedTags(result) == [i \in DOMAIN result.hashtags |-> result.hashtags[i].tag]

C25_RecordedBeforeReturn ==
    [][ /\ (call'.op = "analyze_content" /\ ~call'.raised) =>
              /\ call'.post_id \notin PostIds(db)
              /\ \E p \in db'.posts :
                     /\ p.id = call'.post_id
                     /\ p.predicted_score =
                            call'.result.performance_score.engagement_potential
              /\ HashtagsOf(db'.hashtags, call'.post_id) =
                     ReturnedTags(call'.result)
        /\ (call'.op = "analyze_content" /\ call'.raised) => db' = db
        /\ (cur["c1"].op = "analyze_content" /\ pc'["c1"] # "idle") =>
              db' = db ]_vars

\* analyze_content has returned three hashtags and the id of the post that
\* carries them
C25_Witness ==
    /\ call.op = "analyze_content"
    /\ ~call.raised
    /\ Len(call.result.hashtags) = 3
    /\ \E p \in db.posts :
           /\ p.id = call.post_id
           /\ p.predicted_score > 0
           /\ Len(HashtagsOf(db.hashtags, p.id)) = 3

(***************************************************************************)
(* C26: update_actual_performance for a post_id that is not in posts ends  *)
(* in an error and commits nothing: every step of it leaves the committed  *)
(* store as it is, it never reaches its commit, and no performance row of  *)
(* the store names a post that does not exist.                             *)
(***************************************************************************)
C26_UnknownPostRejected ==
    [][ /\ \A c \in Conns :
              (/\ cur[c].op = "update_actual_performance"
               /\ cur[c].post_id \notin PostIds(db)
               /\ Moved(c)) =>
                  /\ db' = db
                  /\ pc'[c] # "commit"
                  /\ pc'[c] = "idle" => pc[c] = "raised"
        /\ \A r \in db'.performance : r.post_id \in PostIds(db') ]_vars

\* the report of an unknown post has written its performance row to the
\* open transaction and failed on the platform of the post
C26_Witness ==
    \E c \in Conns :
        /\ pc[c] = "raised"
        /\ cur[c].op = "update_actual_performance"
        /\ cur[c].post_id \notin PostIds(db)
        /\ \E r \in wdb[c].performance : r.post_id = cur[c].post_id
        /\ db.posts # {}

(***************************************************************************)
(* C27: the list _fallback_hashtags returns holds no two items whose tags  *)
(* are equal letter case aside, for every text, also one that repeats a    *)
(* word, and every list of proven hashtags.                                *)
(***************************************************************************)
C27_FallbackDistinct ==
    call.op = "fallback" =>
        \A i, j \in DOMAIN call.result :
            i # j => Lower(call.result[i].tag) # Lower(call.result[j].tag)

(***************************************************************************)
(* C28: _fallback_hashtags returns exactly N items, 3 for Twitter and 12   *)
(* for Instagram, for every text and every list of proven hashtags, the    *)
(* empty ones included, and the generic pool is never used up: at least    *)
(* three of its tags are not in the result.                                *)
(***************************************************************************)
UnusedGeneric(result) ==
    {g \in Range(GenericTags) :
        \A i \in DOMAIN result : Lower(result[i].tag) # g}

C28_PoolSuffices ==
    call.op = "fallback" =>
        /\ Len(call.result) = IF call.platform = "Twitter" THEN 3 ELSE 12
        /\ Cardinality(UnusedGeneric(call.result)) >= 3

\* nothing but the generic pool to draw from, and twelve items to return
C28_Witness ==
    /\ call.op = "fallback"
    /\ call.platform = "Instagram"
    /\ call.text = EmptyText
    /\ call.top_hashtags = << >>
    /\ Len(call.result) = 12
    /\ \A i \in DOMAIN call.result : call.result[i].tag \in Range(GenericTags)

(***************************************************************************)
(* C29: the upsert computes avg_engagement with the total_uses of before   *)
(* the increment: after k >= 2 executions for a hashtag with the rates     *)
(* r1..rk its total_uses is k and its avg_engagement is the mean of        *)
(* r2..rk; after one execution it is r1 with total_uses 1.                 *)
(***************************************************************************)
RECURSIVE SumSeq(_)
SumSeq(rates) ==
    IF rates = << >> THEN Zero ELSE RAdd(Head(rates), SumSeq(Tail(rates)))

MeanOf(rates) == RDivInt(SumSeq(rates), Len(rates))

C29_FirstRateDropped ==
    call.op = "upsert" =>
        \A tag \in UpsertTags :
            LET rates == call.rates[tag]
                k     == Len(rates)
            IN IF k = 0 THEN StatsOf(db, tag) = {}
               ELSE \E r \in db.hashtag_stats :
                        /\ StatsOf(db, tag) = {r}
                        /\ r.total_uses = k
                        /\ r.avg_engagement =
                               IF k = 1 THEN rates[1] ELSE MeanOf(Tail(rates))

\* three executions whose first rate differs from the mean of the others,
\* and the mean of all three is not what is stored
C29_Witness ==
    /\ call.op = "upsert"
    /\ \E tag \in UpsertTags :
           /\ Len(call.rates[tag]) = 3
           /\ call.rates[tag][2] # call.rates[tag][3]
           /\ \E r \in StatsOf(db, tag) :
                  /\ r.avg_engagement # MeanOf(call.rates[tag])
                  /\ r.avg_engagement = MeanOf(Tail(call.rates[tag]))

(***************************************************************************)
(* C30: get_similar_successful_posts returns only posts that have a        *)
(* hashtag row and that are among the first 2 * limit candidates by        *)
(* engagement rate: a post without hashtag rows is never returned,         *)
(* whatever its rate and similarity, and neither is a post that 2 * limit  *)
(* or more candidates precede with a higher rate.                          *)
(***************************************************************************)
\* the posts of the platform with hashtag rows and an engagement rate over 3
Candidates(d, platform) ==
    {p \in d.posts :
        /\ p.platform = platform
        /\ HashtagsOf(d.hashtags, p.id) # << >>
        /\ \E r \in d.performance :
               r.post_id = p.id /\ RLess(<<3, 1>>, r.engagement_rate)}

Ahead(d, platform, p) ==
    {q \in Candidates(d, platform) : RLess(RateOf(d, p.id), RateOf(d, q.id))}

\* outcome over 3.0 and more than a fifth of the long words in common
Qualifies(d, p, content, platform) ==
    /\ p.platform = platform
    /\ \E r \in d.performance :
           r.post_id = p.id /\ RLess(<<3, 1>>, r.engagement_rate)
    /\ 5 * Cardinality(LongWords(content) \cap LongWords(p.content))
           > Cardinality(LongWords(content) \cup LongWords(p.content))

C30_OnlyTaggedTopCandidates ==
    call.op = "get_similar_successful_posts" =>
        \A i \in DOMAIN call.result :
            LET p == PostOf(db, call.result[i].post_id)
            IN /\ HashtagsOf(db.hashtags, p.id) # << >>
               /\ Cardinality(Ahead(db, call.platform, p)) < 2 * call.limit

\* nothing is returned although two posts qualify: one has no hashtag row,
\* the other has one and two candidates with a higher rate before it
C30_Witness ==
    /\ call.op = "get_similar_successful_posts"
    /\ call.limit = 1
    /\ call.result = << >>
    /\ \E p, q \in db.posts :
           /\ Qualifies(db, p, call.content, call.platform)
           /\ HashtagsOf(db.hashtags, p.id) = << >>
           /\ Qualifies(db, q, call.content, call.platform)
           /\ q \in Candidates(db, call.platform)
           /\ Cardinality(Ahead(db, call.platform, q)) >= 2

====
